---- MODULE Spec2Model ----
(***************************************************************************)
(* Model of app.py: the startup load of questions.csv (encoding attempts   *)
(* and row validation) and the two request handlers, /health and           *)
(* /questions/unit/<int:unit_id>.                                          *)
(*                                                                         *)
(* A text value is a sequence of one-character strings, so that strip()    *)
(* and str() are computed and not assumed.  The source file is a sequence  *)
(* of rows of byte fields; a byte token is either an ASCII character or    *)
(* one of the named non-ASCII byte groups of DecodeTok.                    *)
(***************************************************************************)
EXTENDS Integers, Sequences, FiniteSets, TLC

VARIABLES src, pc, enc_i, tried, all_questions_data_temp, all_questions_data,
          CSV_LOADED_SUCCESSFULLY, resp

vars == <<src, pc, enc_i, tried, all_questions_data_temp, all_questions_data,
          CSV_LOADED_SUCCESSFULLY, resp>>

\* Bounds of the model: the data rows of a source, the largest unit requested.
MaxRows == 2
MaxUnit == 11

(***************************************************************************)
(* Text values                                                             *)
(***************************************************************************)
\* Python's None (a missing field of a short row; dict.get of an absent key).
None == <<"<None>">>

\* The key csv.DictReader files the surplus fields of a long row under.
RestKey == "<restkey>"

Whitespace == {" ", "\t"}

RECURSIVE LStrip(_)
LStrip(s) ==
    IF s # <<>> /\ Head(s) \in Whitespace THEN LStrip(Tail(s)) ELSE s

RECURSIVE RStrip(_)
RStrip(s) ==
    IF s # <<>> /\ s[Len(s)] \in Whitespace
    THEN RStrip(SubSeq(s, 1, Len(s) - 1))
    ELSE s

\* str.strip()
Strip(s) == RStrip(LStrip(s))

\* Python truthiness of a str-or-None value.
Truthy(v) == v # None /\ v # <<>>

Digit(d) == <<"0", "1", "2", "3", "4", "5", "6", "7", "8", "9">>[d + 1]

\* str(unit_id) for a non-negative integer: its canonical decimal text.
RECURSIVE Str(_)
Str(n) == IF n < 10 THEN <<Digit(n)>> ELSE Str(n \div 10) \o <<Digit(n % 10)>>

\* s[:n]
Take(s, n) == SubSeq(s, 1, IF Len(s) < n THEN Len(s) ELSE n)

\* s.replace(' ', '_')
ReplaceSpace(s) == [i \in 1..Len(s) |-> IF s[i] = " " THEN "_" ELSE s[i]]

(***************************************************************************)
(* Decoding the source under an encoding                                   *)
(***************************************************************************)
encodings_to_try == <<"utf-8-sig", "utf-8", "latin-1", "cp1252">>

Utf8 == {"utf-8-sig", "utf-8"}

\* The byte tokens that raise UnicodeDecodeError under enc: a lone 0xE9 or
\* 0x81 is not UTF-8, and 0x81 is undefined in cp1252; latin-1 maps every byte.
DecodeErr(enc, b) ==
    \/ enc \in Utf8 /\ b \in {"xE9", "x81"}
    \/ enc = "cp1252" /\ b = "x81"

\* The characters a byte token decodes to under enc.
DecodeTok(enc, b) ==
    CASE b = "xC3xA9" -> IF enc \in Utf8 THEN <<"e-acute">>
                                        ELSE <<"A-tilde", "copyright">>
      [] b = "xE9"    -> <<"e-acute">>
      [] b = "x81"    -> <<"U+0081">>
      [] OTHER        -> <<b>>

RECURSIVE DecodeField(_, _)
DecodeField(enc, f) ==
    IF f = <<>> THEN <<>>
    ELSE DecodeTok(enc, Head(f)) \o DecodeField(enc, Tail(f))

FieldBad(enc, f) == \E i \in 1..Len(f) : DecodeErr(enc, f[i])

RowBad(enc, r) == \E i \in 1..Len(r) : FieldBad(enc, r[i])

\* The 1-based index of the first data row that does not decode under enc
\* (Len + 1 when the whole source decodes).
FirstBad(enc, rows) ==
    IF \E k \in 1..Len(rows) : RowBad(enc, rows[k])
    THEN CHOOSE k \in 1..Len(rows) :
            /\ RowBad(enc, rows[k])
            /\ \A j \in 1..(k - 1) : ~RowBad(enc, rows[j])
    ELSE Len(rows) + 1

Decodable(enc, rows) == FirstBad(enc, rows) = Len(rows) + 1

\* reader.fieldnames: the header row as decoded under enc.  A byte-order mark
\* is removed by utf-8-sig only; any other encoding leaves it glued to the
\* first column name.
Fieldnames(s, enc) ==
    [i \in 1..Len(s.header) |->
        IF i = 1 /\ s.bom /\ enc # "utf-8-sig"
        THEN (IF enc = "utf-8" THEN "\\ufeff" ELSE "\\xef\\xbb\\xbf") \o s.header[i]
        ELSE s.header[i]]

required_headers ==
    <<"Unit No", "Question", "Correct Answer", "Wrong Answer 1",
      "Wrong Answer 2", "Wrong Answer 3", "Wrong Answer 4">>

essential_question_fields ==
    <<"Question", "Correct Answer", "Wrong Answer 1",
      "Wrong Answer 2", "Wrong Answer 3", "Wrong Answer 4">>

Range(f) == {f[i] : i \in DOMAIN f}

\* not (not reader.fieldnames or not all(f in reader.fieldnames ...))
HeadersOK(fieldnames) ==
    /\ fieldnames # <<>>
    /\ \A i \in 1..Len(required_headers) : required_headers[i] \in Range(fieldnames)

\* One row of csv.DictReader: the fields zipped with the fieldnames (a later
\* duplicate column wins), None for the columns a short row lacks, the
\* surplus fields of a long row under the rest key.
DictRow(fieldnames, fields) ==
    LET n    == Len(fieldnames)
        m    == Len(fields)
        Last(h) == CHOOSE i \in 1..n :
                      /\ fieldnames[i] = h
                      /\ \A j \in (i + 1)..n : fieldnames[j] # h
        keys == Range(fieldnames) \cup (IF m > n THEN {RestKey} ELSE {})
    IN  [h \in keys |->
            IF h = RestKey /\ h \notin Range(fieldnames)
            THEN SubSeq(fields, n + 1, m)
            ELSE IF Last(h) <= m THEN fields[Last(h)] ELSE None]

\* row.get(h)
Get(row, h) == IF h \in DOMAIN row THEN row[h] ELSE None

DecodeRow(enc, r) == [i \in 1..Len(r) |-> DecodeField(enc, r[i])]

\* The rows the reader yields from the first n data rows of the source: a row
\* without any field (a blank line) is skipped by csv.DictReader.
RECURSIVE ReadRows(_, _, _)
ReadRows(s, enc, n) ==
    IF n = 0 THEN <<>>
    ELSE LET r == s.rows[n]
         IN  IF r = <<>> THEN ReadRows(s, enc, n - 1)
             ELSE Append(ReadRows(s, enc, n - 1),
                         DictRow(Fieldnames(s, enc), DecodeRow(enc, r)))

(***************************************************************************)
(* Row validation                                                          *)
(***************************************************************************)
\* not (not row.get('Unit No') or not row.get('Unit No').strip())
UnitNoPresent(row) ==
    Truthy(Get(row, "Unit No")) /\ Strip(Get(row, "Unit No")) # <<>>

\* all(row.get(h) and row.get(h).strip() for h in essential_question_fields)
EssentialPresent(row) ==
    \A i \in 1..Len(essential_question_fields) :
        LET v == Get(row, essential_question_fields[i])
        IN  Truthy(v) /\ Strip(v) # <<>>

WrongAnswerKeys ==
    <<"Wrong Answer 1", "Wrong Answer 2", "Wrong Answer 3", "Wrong Answer 4">>

raw_wrong_answers(row) ==
    [i \in 1..Len(WrongAnswerKeys) |-> Strip(Get(row, WrongAnswerKeys[i]))]

\* Mutant: the comparison with the correct answer is left out of the filter.
distinct_valid_wrong_answers_NoCorrectCheck(row) ==
    {wa \in Range(raw_wrong_answers(row)) : wa # <<>>}

distinct_valid_wrong_answers(row) ==
    LET correct_answer_val == Strip(Get(row, "Correct Answer"))
    IN  {wa \in Range(raw_wrong_answers(row)) : wa # <<>> /\ wa # correct_answer_val}

\* Mutant: three distinct wrong answers are enough.
EnoughDistinct_Three(row) == ~(Cardinality(distinct_valid_wrong_answers(row)) < 3)

\* not (len(distinct_valid_wrong_answers) < 4)
EnoughDistinct(row) == ~(Cardinality(distinct_valid_wrong_answers(row)) < 4)

\* The row reaches all_questions_data_temp.append(row).
RowAccepted(row) ==
    /\ UnitNoPresent(row)
    /\ EssentialPresent(row)
    /\ EnoughDistinct(row)

\* Mutant: the first rejected row ends the loop (break for continue).
RECURSIVE ValidRows_StopAtInvalid(_)
ValidRows_StopAtInvalid(rows) ==
    IF rows = <<>> \/ ~RowAccepted(Head(rows)) THEN <<>>
    ELSE <<Head(rows)>> \o ValidRows_StopAtInvalid(Tail(rows))

\* all_questions_data_temp after the loop over the given rows.
ValidRows(rows) == SelectSeq(rows, RowAccepted)

(***************************************************************************)
(* The sources the load is run on                                          *)
(***************************************************************************)
SeqUpTo(S, n) == UNION {[1..k -> S] : k \in 0..n}

\* The row of the scenario: unit 1, question Q1, correct A, wrong B C D E.
BaseRow == << <<"1">>, <<"Q", "1">>, <<"A">>, <<"B">>, <<"C">>, <<"D">>, <<"E">> >>

With(r, i, v) == [r EXCEPT ![i] = v]

UnitTexts == { <<"1", "0">>, <<"0", "1">>, <<" ", "1">>, <<" ">> }

QuestionTexts == { <<>> }

CorrectTexts == { <<" ", "A">>, <<"B">>, <<"B", " ">>, <<"\t">> }

WrongTexts == { <<"a", " ">>, <<" ", "B">>, <<"A", " ">>, <<>> }

\* ASCII rows: the scenario's row, that row with one field replaced, a short
\* row (no Wrong Answer 4), a long row (one surplus field) and a blank line.
RowPool ==
    {BaseRow}
    \cup {With(BaseRow, 1, v) : v \in UnitTexts}
    \cup {With(BaseRow, 2, v) : v \in QuestionTexts}
    \cup {With(BaseRow, 3, v) : v \in CorrectTexts}
    \cup {With(BaseRow, 5, v) : v \in WrongTexts}
    \cup {SubSeq(BaseRow, 1, 6), Append(BaseRow, <<"x">>), <<>>}

\* Rows with non-ASCII bytes: a lone 0xE9 (latin-1 text), the UTF-8 pair
\* 0xC3 0xA9 (in a row of unit 2 with the question 'Q 2'), and a lone 0x81.
EncPool ==
    { BaseRow,
      With(BaseRow, 4, <<"xE9">>),
      With(With(With(BaseRow, 1, <<"2">>), 2, <<"Q", " ", "2">>), 3, <<"xC3xA9">>),
      With(BaseRow, 7, <<"E", "x81">>) }

\* A header of an earlier revision of the file: no 'Wrong Answer 4' column.
OldHeader == SubSeq(required_headers, 1, 6)

Encodings == Range(encodings_to_try)

\* The encodings under which reading the source raises an exception that is
\* neither UnicodeDecodeError nor FileNotFoundError (OSError, csv.Error).
FaultSets ==
    {{}, {"utf-8-sig"}, {"utf-8-sig", "utf-8", "latin-1"}, Encodings}

AbsentSource ==
    [exists |-> FALSE, bom |-> FALSE, header |-> <<>>, fault |-> {}, rows |-> <<>>]

CleanSources ==
    {[exists |-> TRUE, bom |-> FALSE, header |-> required_headers, fault |-> {},
      rows |-> r] : r \in SeqUpTo(RowPool, MaxRows)}

EnvSources ==
    [exists : {TRUE}, bom : BOOLEAN, header : {required_headers, OldHeader},
     fault : FaultSets, rows : SeqUpTo(EncPool, MaxRows)]

Sources == {AbsentSource} \cup CleanSources \cup EnvSources

(***************************************************************************)
(* Startup load                                                            *)
(***************************************************************************)
NoResp == [endpoint |-> "none", status |-> 0]

Init ==
    /\ src \in Sources
    /\ pc = "loading"
    /\ enc_i = 1
    /\ tried = <<>>
    /\ all_questions_data_temp = <<>>
    /\ all_questions_data = <<>>
    /\ CSV_LOADED_SUCCESSFULLY = FALSE
    /\ resp = NoResp

enc == encodings_to_try[enc_i]

Attempting == pc = "loading" /\ enc_i \in 1..Len(encodings_to_try)

\* The values all_questions_data_temp can hold when an exception ends the
\* attempt: untouched when it is raised before line 27 (at open or on the
\* first read, which reads the header), else the accepted rows among the
\* j rows handled before the exception, j short of the first undecodable row.
PartialTemps ==
    {all_questions_data_temp}
    \cup (IF HeadersOK(Fieldnames(src, enc))
          THEN {ValidRows(ReadRows(src, enc, j)) :
                    j \in 0..(FirstBad(enc, src.rows) - 1)}
          ELSE {})

\* Mutant: rows are appended to all_questions_data as they are accepted, so a
\* failed attempt leaves its rows behind.
Continue_KeepRows(outcome, temp) ==
    /\ tried' = Append(tried, [enc |-> enc, outcome |-> outcome])
    /\ all_questions_data_temp' = temp
    /\ all_questions_data' = temp
    /\ enc_i' = enc_i + 1
    /\ pc' = IF enc_i = Len(encodings_to_try) THEN "serving" ELSE "loading"
    /\ UNCHANGED <<src, CSV_LOADED_SUCCESSFULLY, resp>>

\* continue: on to the next encoding; the for loop ends after the last one.
Continue(outcome, temp) ==
    /\ tried' = Append(tried, [enc |-> enc, outcome |-> outcome])
    /\ all_questions_data_temp' = temp
    /\ enc_i' = enc_i + 1
    /\ pc' = IF enc_i = Len(encodings_to_try) THEN "serving" ELSE "loading"
    /\ UNCHANGED <<src, all_questions_data, CSV_LOADED_SUCCESSFULLY, resp>>

\* except FileNotFoundError: break
AttemptNotFound ==
    /\ Attempting
    /\ ~src.exists
    /\ tried' = Append(tried, [enc |-> enc, outcome |-> "not_found"])
    /\ pc' = "serving"
    /\ UNCHANGED <<src, enc_i, all_questions_data_temp, all_questions_data,
                   CSV_LOADED_SUCCESSFULLY, resp>>

\* except UnicodeDecodeError: continue
AttemptDecodeError ==
    /\ Attempting
    /\ src.exists
    /\ ~Decodable(enc, src.rows)
    /\ \E temp \in PartialTemps : Continue("decode_error", temp)

\* except Exception: continue
AttemptUnexpectedError ==
    /\ Attempting
    /\ src.exists
    /\ enc \in src.fault
    /\ \E temp \in PartialTemps : Continue("unexpected_error", temp)

\* The header check fails: continue (line 25, before line 27).
AttemptHeaderMismatch ==
    /\ Attempting
    /\ src.exists
    /\ ~HeadersOK(Fieldnames(src, enc))
    /\ Continue("header_mismatch", all_questions_data_temp)

\* The attempt runs to line 70: every row is read and validated, the accepted
\* rows become all_questions_data, the flag is set, break.
AttemptAccepted ==
    /\ Attempting
    /\ src.exists
    /\ enc \notin src.fault
    /\ Decodable(enc, src.rows)
    /\ HeadersOK(Fieldnames(src, enc))
    /\ all_questions_data_temp' = ValidRows(ReadRows(src, enc, Len(src.rows)))
    /\ all_questions_data' = all_questions_data_temp'
    /\ CSV_LOADED_SUCCESSFULLY' = TRUE
    /\ tried' = Append(tried, [enc |-> enc, outcome |-> "accepted"])
    /\ pc' = "serving"
    /\ UNCHANGED <<src, enc_i, resp>>

(***************************************************************************)
(* Request handlers                                                        *)
(***************************************************************************)
UnitIds == 0..MaxUnit

\* The orders random.shuffle can leave a list of 5 in.
Perms == {p \in [1..5 -> 1..5] : \A i, j \in 1..5 : p[i] = p[j] => i = j}

\* Mutant: the shuffle is left out.
Shuffled_Skipped(list, p) == list

Shuffled(list, p) == [i \in 1..Len(list) |-> list[p[i]]]

\* Mutant: health looks at the data only, so an empty load reads as an error.
HealthResponse_DataOnly ==
    IF all_questions_data # <<>>
    THEN [endpoint |-> "health", status |-> 200, body |-> "ok"]
    ELSE [endpoint |-> "health", status |-> 503, body |-> "error"]

\* health_check
HealthResponse ==
    IF CSV_LOADED_SUCCESSFULLY /\ all_questions_data # <<>>
    THEN [endpoint |-> "health", status |-> 200, body |-> "ok"]
    ELSE IF CSV_LOADED_SUCCESSFULLY /\ ~(all_questions_data # <<>>)
    THEN [endpoint |-> "health", status |-> 200, body |-> "ok_empty_data"]
    ELSE [endpoint |-> "health", status |-> 503, body |-> "error"]

health_check ==
    /\ pc = "serving"
    /\ resp = NoResp
    /\ resp' = HealthResponse
    /\ UNCHANGED <<src, pc, enc_i, tried, all_questions_data_temp,
                   all_questions_data, CSV_LOADED_SUCCESSFULLY>>

Abort(unit_id, code, why) ==
    [endpoint |-> "question", unit_id |-> unit_id, status |-> code, body |-> why]

\* Mutant: the stored Unit No is trimmed before the comparison.
UnitMatches_Trimmed(q, unit_id) == Strip(Get(q, "Unit No")) = Str(unit_id)

\* q.get('Unit No') == str(unit_id)
UnitMatches(q, unit_id) == Get(q, "Unit No") = Str(unit_id)

\* Mutant: a unit without questions falls back to the questions of all units.
unit_specific_questions_raw_Fallback(unit_id) ==
    LET Match(q) == UnitMatches(q, unit_id)
        found    == SelectSeq(all_questions_data, Match)
    IN  IF found = <<>> THEN all_questions_data ELSE found

unit_specific_questions_raw(unit_id) ==
    LET Match(q) == UnitMatches(q, unit_id)
    IN  SelectSeq(all_questions_data, Match)

\* [correct_answer] + wrong_answers
all_options(q) ==
    <<Get(q, "Correct Answer"), Get(q, "Wrong Answer 1"), Get(q, "Wrong Answer 2"),
      Get(q, "Wrong Answer 3"), Get(q, "Wrong Answer 4")>>

\* The 200 response for the selected record and the order the shuffle left.
formatted_question(unit_id, selected_question_data, p) ==
    LET question_text == Get(selected_question_data, "Question")
    IN  [endpoint |-> "question", unit_id |-> unit_id, status |-> 200,
         body |-> [question_id |-> <<"U">> \o Get(selected_question_data, "Unit No")
                                    \o <<"_">> \o ReplaceSpace(Take(question_text, 20)),
                   question |-> question_text,
                   options |-> Shuffled(all_options(selected_question_data), p),
                   correct_answer_debug |-> Get(selected_question_data, "Correct Answer")]]

\* Mutant: the check for an empty question set is left out.
QuestionResponses_NoEmptyCheck(unit_id) ==
    IF ~CSV_LOADED_SUCCESSFULLY
    THEN {Abort(unit_id, 503, "csv_not_loaded")}
    ELSE LET raw == unit_specific_questions_raw(unit_id)
         IN  IF raw = <<>>
             THEN {Abort(unit_id, 404, "no_questions_for_unit")}
             ELSE {formatted_question(unit_id, raw[i], p) :
                       i \in 1..Len(raw), p \in Perms}

\* Every response get_single_question_for_unit can give in the current state.
QuestionResponses(unit_id) ==
    IF ~CSV_LOADED_SUCCESSFULLY
    THEN {Abort(unit_id, 503, "csv_not_loaded")}
    ELSE IF ~(all_questions_data # <<>>)
    THEN {Abort(unit_id, 503, "question_data_empty")}
    ELSE LET raw == unit_specific_questions_raw(unit_id)
         IN  IF raw = <<>>
             THEN {Abort(unit_id, 404, "no_questions_for_unit")}
             ELSE {formatted_question(unit_id, raw[i], p) :
                       i \in 1..Len(raw), p \in Perms}

\* Mutant: a question that was served is removed from all_questions_data.
get_single_question_for_unit_Consuming ==
    /\ pc = "serving"
    /\ resp = NoResp
    /\ \E unit_id \in UnitIds :
          /\ resp' \in QuestionResponses(unit_id)
          /\ IF resp'.status = 200
             THEN \E i \in 1..Len(all_questions_data) :
                     /\ UnitMatches(all_questions_data[i], unit_id)
                     /\ all_questions_data' =
                            SubSeq(all_questions_data, 1, i - 1)
                            \o SubSeq(all_questions_data, i + 1, Len(all_questions_data))
             ELSE UNCHANGED all_questions_data
    /\ UNCHANGED <<src, pc, enc_i, tried, all_questions_data_temp,
                   CSV_LOADED_SUCCESSFULLY>>

get_single_question_for_unit ==
    /\ pc = "serving"
    /\ resp = NoResp
    /\ \E unit_id \in UnitIds : resp' \in QuestionResponses(unit_id)
    /\ UNCHANGED <<src, pc, enc_i, tried, all_questions_data_temp,
                   all_questions_data, CSV_LOADED_SUCCESSFULLY>>

\* The response is sent and the worker takes the next request.
SendResponse ==
    /\ pc = "serving"
    /\ resp # NoResp
    /\ resp' = NoResp
    /\ UNCHANGED <<src, pc, enc_i, tried, all_questions_data_temp,
                   all_questions_data, CSV_LOADED_SUCCESSFULLY>>

Next ==
    \/ AttemptNotFound
    \/ AttemptDecodeError
    \/ AttemptUnexpectedError
    \/ AttemptHeaderMismatch
    \/ AttemptAccepted
    \/ health_check
    \/ get_single_question_for_unit
    \/ SendResponse

Spec == Init /\ [][Next]_vars

(***************************************************************************)
(* Properties                                                              *)
(***************************************************************************)
Serving == pc = "serving"

\* The load is over and no request is in flight.
Idle == Serving /\ resp = NoResp

\* An attempt ran to its end: the load did not fail.
Accepted == \E i \in 1..Len(tried) : tried[i].outcome = "accepted"

AcceptedEnc == tried[Len(tried)].enc

Records == Range(all_questions_data)

\* The five stored answer values of a record, the correct one first.
Stored(q) ==
    <<q["Correct Answer"], q["Wrong Answer 1"], q["Wrong Answer 2"],
      q["Wrong Answer 3"], q["Wrong Answer 4"]>>

PairwiseDistinct(list) ==
    \A i, j \in 1..Len(list) : list[i] = list[j] => i = j

Count(list, v) == Cardinality({i \in 1..Len(list) : list[i] = v})

\* One list is a rearrangement of the other: every value occurs equally often.
SameElements(a, b) ==
    /\ Len(a) = Len(b)
    /\ \A v \in Range(a) \cup Range(b) : Count(a, v) = Count(b, v)

Ok200 == resp.endpoint = "question" /\ resp.status = 200

UnitInData(n) == \E q \in Records : q["Unit No"] = Str(n)

ExactlyOneCorrect(r) ==
    Cardinality({k \in 1..Len(r.body.options) :
                    r.body.options[k] = r.body.correct_answer_debug}) = 1

\* The routing layer's integer converter: a path segment of decimal digits is
\* handed to the handler as its integer value.
IsDigits(text) ==
    /\ text # <<>>
    /\ \A i \in 1..Len(text) : \E d \in 0..9 : text[i] = Digit(d)

RECURSIVE IntOf(_)
IntOf(text) ==
    IF text = <<>> THEN 0
    ELSE 10 * IntOf(SubSeq(text, 1, Len(text) - 1))
         + (CHOOSE d \in 0..9 : text[Len(text)] = Digit(d))

RoutesTo(text, n) == IsDigits(text) /\ IntOf(text) = n

\* C1 as stated: for every Unit No value of an accepted record, a request for
\* that unit succeeds with exactly one option equal to the correct answer.
C1_AsStated ==
    (/\ resp.endpoint = "question"
     /\ \E q \in Records : RoutesTo(q["Unit No"], resp.unit_id))
    => (resp.status = 200 /\ ExactlyOneCorrect(resp))

\* C1 amended: for every unit n whose canonical decimal text str(n) is the
\* Unit No of an accepted record, a question request for n answers 200, the
\* record behind the response is one of that unit, and exactly one element of
\* options equals its correct answer, the value of correct_answer_debug.
C1_OneCorrectOption ==
    (resp.endpoint = "question" /\ UnitInData(resp.unit_id))
    => /\ resp.status = 200
       /\ ExactlyOneCorrect(resp)
       /\ \E q \in Records :
             /\ q["Unit No"] = Str(resp.unit_id)
             /\ q["Correct Answer"] = resp.body.correct_answer_debug

C1_Witness ==
    /\ Ok200
    /\ Len(all_questions_data) = 2
    /\ \E q \in Records : Strip(q["Wrong Answer 2"]) # q["Wrong Answer 2"]

\* The <<question, correct answer, k>> for which some 200 response to a
\* request for unit n has the correct answer at position k of options.
CorrectPositions(n) ==
    UNION {{<<r.body.question, r.body.correct_answer_debug, k>> :
                k \in {j \in 1..Len(r.body.options) :
                          r.body.options[j] = r.body.correct_answer_debug}} :
           r \in {x \in QuestionResponses(n) : x.status = 200}}

\* C2: the options of every 200 response are the five stored answers of one
\* record of the requested unit, each exactly once, in some order; and for
\* every record of a unit each of the five positions can hold the correct
\* answer.
C2_OptionsArePermutation ==
    /\ Ok200 =>
          /\ Len(resp.body.options) = 5
          /\ \E q \in Records :
                /\ q["Unit No"] = Str(resp.unit_id)
                /\ resp.body.question = q["Question"]
                /\ resp.body.correct_answer_debug = q["Correct Answer"]
                /\ SameElements(resp.body.options, Stored(q))
    /\ Idle =>
          \A n \in UnitIds :
              LET possible == CorrectPositions(n)
              IN  \A q \in Records :
                      q["Unit No"] = Str(n)
                      => \A k \in 1..5 :
                            <<q["Question"], q["Correct Answer"], k>> \in possible

C2_Witness ==
    /\ Ok200
    /\ resp.body.options[5] = resp.body.correct_answer_debug
    /\ Len(unit_specific_questions_raw(resp.unit_id)) = 2

\* C3 as stated: in every load outcome, a request for a unit no accepted
\* record has fails with 404.
C3_AsStated ==
    (resp.endpoint = "question" /\ ~UnitInData(resp.unit_id))
    => resp.status = 404

\* C3 amended: a request for a unit no accepted record has fails with 404
\* when the load accepted at least one record, and with 503 when the load
\* failed or accepted no record.
C3_AbsentUnit ==
    (resp.endpoint = "question" /\ ~UnitInData(resp.unit_id))
    => resp.status = (IF Accepted /\ Records # {} THEN 404 ELSE 503)

C3_Witness ==
    /\ resp.endpoint = "question"
    /\ resp.status = 404
    /\ \E q \in Records : q["Unit No"] = Str(10)
    /\ resp.unit_id = 1

\* C4: health answers 503 "error" exactly when no attempt ran to its end,
\* 200 "ok" exactly when one did and left at least one record, and 200
\* "ok_empty_data" exactly when one did and left no record.
C4_Health ==
    resp.endpoint = "health"
    => /\ resp.status \in {200, 503}
       /\ (resp.status = 503) <=> ~Accepted
       /\ (resp.status = 503) <=> (resp.body = "error")
       /\ (resp.status = 200 /\ resp.body = "ok") <=> (Accepted /\ Records # {})
       /\ (resp.status = 200 /\ resp.body = "ok_empty_data")
              <=> (Accepted /\ Records = {})

C4_Witness ==
    /\ resp.endpoint = "health"
    /\ resp.body = "ok_empty_data"
    /\ src.rows # <<>>

\* C5: a question request answers 503 exactly when no attempt ran to its end
\* or the question set is empty, for every unit; then it answers neither 404
\* nor 200.
C5_Unavailable ==
    resp.endpoint = "question"
    => /\ (resp.status = 503) <=> (~Accepted \/ Records = {})
       /\ resp.status \in {200, 404, 503}

C5_Witness ==
    /\ resp.endpoint = "question"
    /\ resp.status = 503
    /\ Accepted
    /\ Len(src.rows) = MaxRows

\* Reading the source under encoding e runs to the end with the headers found.
ReadsClean(e) ==
    /\ src.exists
    /\ e \notin src.fault
    /\ \A k \in 1..Len(src.rows) : ~RowBad(e, src.rows[k])
    /\ \A i \in 1..Len(required_headers) :
          required_headers[i] \in Range(Fieldnames(src, e))

FirstClean ==
    CHOOSE i \in 1..Len(encodings_to_try) :
        /\ ReadsClean(encodings_to_try[i])
        /\ \A j \in 1..(i - 1) : ~ReadsClean(encodings_to_try[j])

\* C6: the encodings are tried in the order utf-8-sig, utf-8, latin-1, cp1252;
\* the first under which the source is read to its end with all 7 headers is
\* accepted and is the last one tried, every attempt before it ended in a
\* decode error, a header mismatch or another error, a missing source ends the
\* attempts at the first, the question set holds only rows as read under the
\* accepted encoding, and without an accepted encoding the flag stays false
\* and the question set empty; nothing is kept while the attempts go on.
C6_EncodingOrder ==
    /\ \A i \in 1..Len(tried) : tried[i].enc = encodings_to_try[i]
    /\ \A i \in 1..(Len(tried) - 1) :
          tried[i].outcome \in {"decode_error", "header_mismatch", "unexpected_error"}
    /\ ~Serving => (all_questions_data = <<>> /\ ~CSV_LOADED_SUCCESSFULLY)
    /\ Idle =>
          IF \E i \in 1..Len(encodings_to_try) : ReadsClean(encodings_to_try[i])
          THEN /\ Len(tried) = FirstClean
               /\ tried[FirstClean].outcome = "accepted"
               /\ CSV_LOADED_SUCCESSFULLY
               /\ Records \subseteq
                     Range(ReadRows(src, encodings_to_try[FirstClean], Len(src.rows)))
          ELSE /\ ~Accepted
               /\ ~CSV_LOADED_SUCCESSFULLY
               /\ all_questions_data = <<>>
               /\ IF src.exists
                  THEN Len(tried) = Len(encodings_to_try)
                  ELSE tried = <<[enc |-> encodings_to_try[1], outcome |-> "not_found"]>>

C6_Witness ==
    /\ Serving
    /\ Len(tried) = 3
    /\ tried[1].outcome = "decode_error"
    /\ tried[2].outcome = "decode_error"
    /\ tried[3].outcome = "accepted"
    /\ Len(all_questions_data) = 2
    /\ \E q \in Records : q["Correct Answer"] = <<"A-tilde", "copyright">>

\* C7: the four stored wrong answers of every record of the question set are
\* pairwise distinct and distinct from the stored correct answer, as are their
\* stripped values, and so are the five options of every 200 response.
C7_StrictDistinct ==
    /\ \A q \in Records :
          /\ PairwiseDistinct(Stored(q))
          /\ PairwiseDistinct([i \in 1..5 |-> Strip(Stored(q)[i])])
    /\ Ok200 => PairwiseDistinct(resp.body.options)

C7_Witness ==
    /\ Serving
    /\ \E q \in Records :
          /\ Strip(q["Correct Answer"]) # q["Correct Answer"]
          /\ q \in Range(unit_specific_questions_raw(1))
    /\ Ok200
    /\ resp.body.correct_answer_debug = <<" ", "A">>

NonBlank(v) == v # None /\ Strip(v) # <<>>

\* A data row the load has to keep: Unit No, Question, Correct Answer and the
\* four wrong answers non-blank, the stripped wrong answers pairwise distinct
\* and distinct from the stripped correct answer.
KeptRow(row) ==
    /\ \A i \in 1..Len(required_headers) :
          required_headers[i] \in DOMAIN row /\ NonBlank(row[required_headers[i]])
    /\ PairwiseDistinct([i \in 1..5 |-> Strip(Stored(row)[i])])

\* C8: after a load under an accepted encoding the question set is exactly
\* the data rows that have to be kept, in source order, whatever rows were
\* rejected before or after them, and the load counts as successful even when
\* every row was rejected.
C8_RowsSkipped ==
    (Idle /\ Accepted)
    => /\ all_questions_data =
              SelectSeq(ReadRows(src, AcceptedEnc, Len(src.rows)), KeptRow)
       /\ CSV_LOADED_SUCCESSFULLY

C8_Witness ==
    /\ Serving
    /\ Accepted
    /\ Len(src.rows) = 2
    /\ Len(all_questions_data) = 1
    /\ Len(ReadRows(src, AcceptedEnc, 1)) = 1
    /\ ~KeptRow(ReadRows(src, AcceptedEnc, 1)[1])

\* C9: once the load is over no step changes the question set or the load
\* flag.
C9_ReadOnlyAfterLoad ==
    [][Serving => UNCHANGED <<all_questions_data, CSV_LOADED_SUCCESSFULLY>>]_vars

C9_Witness ==
    /\ Ok200
    /\ resp.body.options[1] # resp.body.correct_answer_debug
    /\ CSV_LOADED_SUCCESSFULLY

\* C10: a 200 response for unit n carries a record whose stored Unit No is
\* exactly str(n) (it shows in question_id), and when no stored Unit No is
\* exactly str(n) the request is not answered 200, even if a stored Unit No
\* differs from str(n) only by a leading zero or blank.
C10_ExactUnitMatch ==
    /\ Ok200 =>
          LET u == Str(resp.unit_id)
          IN  /\ Len(resp.body.question_id) >= Len(u) + 2
              /\ SubSeq(resp.body.question_id, 1, Len(u) + 2) = <<"U">> \o u \o <<"_">>
              /\ resp.body.question_id =
                     <<"U">> \o u \o <<"_">> \o ReplaceSpace(Take(resp.body.question, 20))
    /\ (resp.endpoint = "question" /\ CSV_LOADED_SUCCESSFULLY /\ Records # {}
        /\ \A q \in Records : q["Unit No"] # Str(resp.unit_id))
       => resp.status = 404

C10_Witness ==
    /\ resp.endpoint = "question"
    /\ resp.unit_id = 1
    /\ resp.status = 404
    /\ \E q \in Records : q["Unit No"] = <<"0", "1">>
    /\ \E q \in Records : q["Unit No"] = <<" ", "1">>

====
